---------------------------- MODULE Spec2Model ----------------------------
(***************************************************************************)
(* A model of lib/graph.js: the Graph client (token, secret, base URL),    *)
(* the GraphRequest builder (URL preparation, GET/POST dispatch) and the   *)
(* response normalisation of GraphRequest.prototype.end.                   *)
(*                                                                         *)
(* JavaScript strings are sequences of one-character strings, so that      *)
(* indexOf, substr, trim and the regular expression of del are computed    *)
(* on the characters.  JavaScript values are records of one shape,         *)
(* [type, chars, fields]; an object's fields are its (key, value) pairs in *)
(* insertion order.                                                        *)
(***************************************************************************)
EXTENDS Naturals, Integers, Sequences, FiniteSets

VARIABLES graph, requestOptionsDefined, calls, last

vars == <<graph, requestOptionsDefined, calls, last>>

(***************************************************************************)
(* Bounds of the model.                                                    *)
(***************************************************************************)
\* the longest query (in parameters) of a path handed to get, post and del
MaxParams == 2
\* the calls of the concurrent specification: in flight, plus the last ended
MaxCalls == 2

(***************************************************************************)
(* String literals of the source.                                          *)
(***************************************************************************)
S_access_token == <<"a","c","c","e","s","s","_","t","o","k","e","n">>
S_access_token_eq == S_access_token \o <<"=">>
S_appsecret_proof == <<"a","p","p","s","e","c","r","e","t","_","p","r","o","o","f">>
S_appsecret_proof_eq == S_appsecret_proof \o <<"=">>
S_method_delete == <<"m","e","t","h","o","d","=","d","e","l","e","t","e">>
S_http == <<"h","t","t","p">>
S_image == <<"i","m","a","g","e">>
S_data_eq == <<"d","a","t","a","=">>
S_error == <<"e","r","r","o","r">>
S_message == <<"m","e","s","s","a","g","e">>
S_exception == <<"e","x","c","e","p","t","i","o","n">>
S_location == <<"l","o","c","a","t","i","o","n">>
S_grant_type == <<"g","r","a","n","t","_","t","y","p","e">>
S_fb_exchange_token == <<"f","b","_","e","x","c","h","a","n","g","e","_","t","o","k","e","n">>
S_oauth_access_token == <<"/","o","a","u","t","h","/">> \o S_access_token
S_default_graphUrl ==
  <<"h","t","t","p","s",":","/","/","g","r","a","p","h",".",
    "f","a","c","e","b","o","o","k",".","c","o","m">>

(***************************************************************************)
(* String.prototype methods.                                               *)
(***************************************************************************)
Occurrences(s, pat) ==
  {i \in 0..(Len(s) - Len(pat)) : SubSeq(s, i + 1, i + Len(pat)) = pat}

\* s.indexOf(pat): the first 0-based position of pat in s, or -1
MinOr(hits, none) ==
  IF hits = {} THEN none ELSE CHOOSE i \in hits : \A j \in hits : i <= j

IndexOf(s, pat) == MinOr(Occurrences(s, pat), -1)

\* s.charAt(i): "" past the end
CharAt(s, i) == IF i < Len(s) THEN s[i + 1] ELSE ""

\* s.substr(from, len)
Substr(s, from, len) ==
  SubSeq(s, from + 1, IF from + len < Len(s) THEN from + len ELSE Len(s))

IsSpace(c) == c \in {" ", "\t", "\n"}

RECURSIVE TrimLeft(_)
TrimLeft(s) ==
  IF s # <<>> /\ IsSpace(Head(s)) THEN TrimLeft(Tail(s)) ELSE s

RECURSIVE TrimRight(_)
TrimRight(s) ==
  IF s # <<>> /\ IsSpace(s[Len(s)]) THEN TrimRight(SubSeq(s, 1, Len(s) - 1)) ELSE s

\* s.trim()
Trim(s) == TrimRight(TrimLeft(s))

\* the letters of the pattern method=delete, folded as the /i flag folds them
LowerChar(c) ==
  CASE c = "M" -> "m" [] c = "E" -> "e" [] c = "T" -> "t" [] c = "H" -> "h"
    [] c = "O" -> "o" [] c = "D" -> "d" [] c = "L" -> "l" [] OTHER -> c

Lower(s) == [i \in 1..Len(s) |-> LowerChar(s[i])]

(***************************************************************************)
(* JavaScript values.                                                      *)
(***************************************************************************)
JS(t, c, f) == [type |-> t, chars |-> c, fields |-> f]
Null == JS("null", <<>>, <<>>)
Undefined == JS("undefined", <<>>, <<>>)
Str(s) == JS("string", s, <<>>)
Num(digits) == JS("number", digits, <<>>)
True == JS("boolean", <<"t","r","u","e">>, <<>>)
Obj(f) == JS("object", <<>>, f)
\* the function values that are passed as callbacks
Fn(name) == JS("function", name, <<>>)
UserCallback == Fn(<<"c","b">>)
AuthorizeCallback == Fn(<<"a","u","t","h","o","r","i","z","e">>)
ExtendCallback == Fn(<<"e","x","t","e","n","d">>)
ExtendKeepCallback == Fn(<<"e","x","t","e","n","d","K">>)

\* ToBoolean(v), as `if (v)`, `v && ...`, `v || ...` and `!v` use it
Truthy(v) ==
  CASE v.type \in {"null", "undefined"} -> FALSE
    [] v.type = "string" -> v.chars # <<>>
    [] v.type = "number" -> v.chars # <<"0">>
    [] v.type = "boolean" -> v.chars = <<"t","r","u","e">>
    [] OTHER -> TRUE

\* v[key] of a value that is neither null nor undefined
FieldAt(fields, i) == IF i = 0 THEN Undefined ELSE fields[i][2]

GetField(v, key) ==
  FieldAt(v.fields, MinOr({i \in 1..Len(v.fields) : v.fields[i][1] = key}, 0))

\* "..." + v for the values a token or a secret takes
ToStr(v) ==
  CASE v.type \in {"string", "number", "boolean"} -> v.chars
    [] v.type = "null" -> <<"n","u","l","l">>
    [] v.type = "undefined" -> <<"u","n","d","e","f","i","n","e","d">>
    [] OTHER -> <<"[","o","b","j","e","c","t","]">>


\* a message literal, which no string method ever scans: kept in one piece
Text(s) == Str(<<s>>)

(***************************************************************************)
(* The libraries the module requires: crypto, qs, url and JSON.            *)
(***************************************************************************)
\* crypto.createHmac('sha256', secret).update(token).digest('hex'): the
\* digest is kept symbolic, one text per (key, message)
HmacHex(secret, token) ==
  <<"h","m","a","c","(">> \o secret \o <<",">> \o token \o <<")">>

\* encodeURIComponent of one character
EncodeChar(c) ==
  CASE c = " " -> <<"%","2","0">> [] c = "/" -> <<"%","2","F">>
    [] c = ":" -> <<"%","3","A">> [] c = "=" -> <<"%","3","D">>
    [] c = "&" -> <<"%","2","6">> [] c = "?" -> <<"%","3","F">>
    [] c = "|" -> <<"%","7","C">> [] c = "%" -> <<"%","2","5">>
    [] c = "+" -> <<"%","2","B">> [] c = "#" -> <<"%","2","3">>
    [] OTHER -> <<c>>

RECURSIVE Encode(_)
Encode(s) == IF s = <<>> THEN <<>> ELSE EncodeChar(Head(s)) \o Encode(Tail(s))

Escapes == {" ", "/", ":", "=", "&", "?", "|", "%", "+", "#"}

\* decodeURIComponent after '+' has become a space, as querystring decodes
RECURSIVE Decode(_)
Decode(s) ==
  IF s = <<>> THEN <<>>
  ELSE IF Head(s) = "+" THEN <<" ">> \o Decode(Tail(s))
  ELSE IF Head(s) = "%" /\ Len(s) >= 3
          /\ \E c \in Escapes : EncodeChar(c) = SubSeq(s, 1, 3)
       THEN <<CHOOSE c \in Escapes : EncodeChar(c) = SubSeq(s, 1, 3)>>
            \o Decode(SubSeq(s, 4, Len(s)))
  ELSE <<Head(s)>> \o Decode(Tail(s))

\* qs.stringify of a flat object: key=value joined by '&'; null gives an
\* empty value and undefined is left out
RECURSIVE QsPairs(_)
QsPairs(fields) ==
  IF fields = <<>> THEN <<>>
  ELSE LET kv == Head(fields)
           rest == QsPairs(Tail(fields))
       IN  IF kv[2].type = "undefined" THEN rest
           ELSE <<Encode(kv[1]) \o <<"=">>
                  \o (IF kv[2].type = "null" THEN <<>> ELSE Encode(ToStr(kv[2])))>>
                \o rest

RECURSIVE JoinAmp(_)
JoinAmp(parts) ==
  IF parts = <<>> THEN <<>>
  ELSE IF Len(parts) = 1 THEN parts[1]
  ELSE parts[1] \o <<"&">> \o JoinAmp(Tail(parts))

QsStringify(obj) == JoinAmp(QsPairs(obj.fields))

\* s.split(sep) for a one-character separator
RECURSIVE Split(_, _)
SplitAt(s, sep, i) ==
  IF i = -1 THEN <<s>>
  ELSE <<SubSeq(s, 1, i)>> \o Split(SubSeq(s, i + 2, Len(s)), sep)

Split(s, sep) == SplitAt(s, sep, IndexOf(s, <<sep>>))

ArrayItem == <<"#">>

\* obj[key] = value as querystring.parse assigns it: a repeated key
\* collects its values in an array
AddQueryField(fields, key, value) ==
  LET hits == {i \in 1..Len(fields) : fields[i][1] = key}
  IN  IF hits = {} THEN Append(fields, <<key, Str(value)>>)
      ELSE LET i == CHOOSE h \in hits : TRUE
               old == fields[i][2]
               items == IF old.type = "array" THEN old.fields
                        ELSE <<<<ArrayItem, old>>>>
           IN  [fields EXCEPT ![i] =
                  <<key, JS("array", <<>>, Append(items, <<ArrayItem, Str(value)>>))>>]

\* one key=value part, cut at its first '='
QueryField(acc, part, i) ==
  IF i = -1 THEN AddQueryField(acc, Decode(part), <<>>)
  ELSE AddQueryField(acc, Decode(SubSeq(part, 1, i)),
                     Decode(SubSeq(part, i + 2, Len(part))))

\* querystring.parse of the parts between the '&'
RECURSIVE QueryFields(_, _)
QueryFields(parts, acc) ==
  IF parts = <<>> THEN acc
  ELSE IF Head(parts) = <<>> THEN QueryFields(Tail(parts), acc)
  ELSE QueryFields(Tail(parts),
                   QueryField(acc, Head(parts), IndexOf(Head(parts), <<"=">>)))

BeforeHash(s, h) == IF h = -1 THEN s ELSE SubSeq(s, 1, h)

AfterQuestion(s, q) == IF q = -1 THEN <<>> ELSE SubSeq(s, q + 2, Len(s))

UrlSearch(s) == AfterQuestion(s, IndexOf(s, <<"?">>))

UrlNoHash(s) == BeforeHash(s, IndexOf(s, <<"#">>))

\* url.parse(s, true).query of a string that starts with '?': the text
\* after the '?', up to a '#', parsed by querystring.parse
UrlParseQuery(s) ==
  Obj(QueryFields(Split(UrlSearch(UrlNoHash(Trim(s))), "&"), <<>>))

\* the response texts of the model that hold both '{' and '}'
B_name == <<"{","\"","n","\"",":","\"","Z","\"","}">>
B_error == <<"{","\"","e","r","r","o","r","\"",":","{","\"","m","\"",":","\"","x","\"","}","}">>
B_error_zero == <<"{","\"","e","r","r","o","r","\"",":","0","}">>
B_token_json == <<"{","\"">> \o S_access_token \o <<"\"",":","\"","B","\"","}">>
B_bad_json == <<"{","\"","n","\"",":","}">>

SyntaxError == Text("SyntaxError")

\* JSON.parse on the texts above: [threw, value]; any other text that
\* reaches it in the model is not JSON
JSONParse(s) ==
  CASE s = B_name ->
         [threw |-> FALSE, value |-> Obj(<<<<(<<"n">>), Str(<<"Z">>)>>>>)]
    [] s = B_error ->
         [threw |-> FALSE,
          value |-> Obj(<<<<S_error, Obj(<<<<(<<"m">>), Str(<<"x">>)>>>>)>>>>)]
    [] s = B_error_zero ->
         [threw |-> FALSE, value |-> Obj(<<<<S_error, Num(<<"0">>)>>>>)]
    [] s = B_token_json ->
         [threw |-> FALSE, value |-> Obj(<<<<S_access_token, Str(<<"B">>)>>>>)]
    [] OTHER -> [threw |-> TRUE, value |-> SyntaxError]

(***************************************************************************)
(* GraphRequest.prototype.cleanUrl and prepareUrl.                         *)
(***************************************************************************)
\* ~url.indexOf('?') ? '&' : '?'
Separator(url) == IF IndexOf(url, <<"?">>) # -1 THEN <<"&">> ELSE <<"?">>

\* line 93
AddLeadingSlash(url) ==
  IF CharAt(url, 0) # "/" /\ Substr(url, 0, 4) # S_http THEN <<"/">> \o url ELSE url

\* a cleanUrl that does not look for an access_token= already there
AddAccessTokenAlways(g, url) ==
  IF Truthy(g.accessToken)
  THEN url \o Separator(url) \o S_access_token_eq \o ToStr(g.accessToken)
  ELSE url

\* lines 96-99
AddAccessToken(g, url) ==
  IF Truthy(g.accessToken) /\ IndexOf(url, S_access_token_eq) = -1
  THEN url \o Separator(url) \o S_access_token_eq \o ToStr(g.accessToken)
  ELSE url

\* a cleanUrl that keys the HMAC with the token and signs the secret
AddAppsecretProofSwapped(g, url) ==
  IF /\ Truthy(g.accessToken)
     /\ Truthy(g.appSecret)
     /\ IndexOf(url, S_appsecret_proof) = -1
  THEN url \o Separator(url) \o S_appsecret_proof_eq
       \o HmacHex(ToStr(g.accessToken), ToStr(g.appSecret))
  ELSE url

\* lines 102-108
AddAppsecretProof(g, url) ==
  IF /\ Truthy(g.accessToken)
     /\ Truthy(g.appSecret)
     /\ IndexOf(url, S_appsecret_proof) = -1
  THEN url \o Separator(url) \o S_appsecret_proof_eq
       \o HmacHex(ToStr(g.appSecret), ToStr(g.accessToken))
  ELSE url

CleanUrl(g, url) ==
  AddAppsecretProof(g, AddAccessToken(g, AddLeadingSlash(Trim(url))))

AddGraphUrl(g, url) ==
  IF Substr(url, 0, 4) # S_http THEN g.graphUrl \o url ELSE url

PrepareUrl(g, url) == AddGraphUrl(g, CleanUrl(g, url))

(***************************************************************************)
(* GraphRequest.prototype.end: the normalisation of a response body.       *)
(***************************************************************************)
ParseError(e) == Obj(<<<<S_message, Text("Error parsing json")>>, <<S_exception, e>>>>)

TypeError == Text("TypeError")
ReferenceError == Text("ReferenceError")

\* line 127: JSON.parse(body), and the catch of lines 140-144
ParseJsonBody(p) ==
  IF p.threw THEN [err |-> ParseError(p.value), json |-> Null]
  ELSE [err |-> Null, json |-> p.value]

\* lines 134-135
WithDataKey(body) == IF IndexOf(body, <<"=">>) = -1 THEN S_data_eq \o body ELSE body

WithQuestionMark(body) == IF CharAt(body, 0) # "?" THEN <<"?">> \o body ELSE body

\* lines 126-138, of a body that is a string
ParseStringBody(body) ==
  IF IndexOf(body, <<"{">>) # -1 /\ IndexOf(body, <<"}">>) # -1
  THEN ParseJsonBody(JSONParse(body))
  ELSE [err |-> Null, json |-> UrlParseQuery(WithQuestionMark(WithDataKey(body)))]

\* lines 119-145: [err, json]
ParseBody(body) ==
  IF body.type = "string" THEN ParseStringBody(body.chars)
  ELSE IF Truthy(body) THEN [err |-> Null, json |-> body]
  \* body.indexOf of a value that is no string throws inside the try
  ELSE [err |-> ParseError(TypeError), json |-> body]

\* an end that hands the callback no result beside an embedded error
CallbackArgsNoResult(p, embedded) ==
  IF p.err = Null /\ Truthy(p.json) /\ Truthy(embedded)
  THEN [err |-> embedded, res |-> Null]
  ELSE [err |-> p.err, res |-> p.json]

\* lines 147-149: the arguments this.callback gets, the embedded error
\* being json.error
CallbackArgs(p, embedded) ==
  [err |-> IF p.err = Null /\ Truthy(p.json) /\ Truthy(embedded)
           THEN embedded ELSE p.err,
   res |-> p.json]

EmbeddedError(json) == IF Truthy(json) THEN GetField(json, S_error) ELSE Undefined

EndOf(p) == CallbackArgs(p, EmbeddedError(p.json))

\* GraphRequest.prototype.end(body): the arguments of its call of
\* this.callback
End(body) == EndOf(ParseBody(body))

(***************************************************************************)
(* The state.  graph is the Graph object; requestOptionsDefined tells      *)
(* whether the host defines the global `requestOptions` that the           *)
(* GraphRequest constructor reads (graph.js declares no such variable);    *)
(* calls holds the calls whose HTTP request is in flight; last is the call *)
(* that ended since the latest call began, with what its callback          *)
(* received (NoCall when none has).                                        *)
(***************************************************************************)
NewGraph(options) ==
  [accessToken |-> IF Truthy(options.accessToken) THEN options.accessToken ELSE Null,
   appSecret |-> IF Truthy(options.appSecret) THEN options.appSecret ELSE Null,
   graphUrl |-> IF options.graphUrl # <<>> THEN options.graphUrl
                ELSE S_default_graphUrl]

\* a call of the public API before it has run; the fields from cbCount on
\* record what the caller observes
NewCall(g, op, url, omitted) ==
  [op |-> op, url |-> url, payloadOmitted |-> omitted,
   builder |-> FALSE, reqUrl |-> <<>>, method |-> "", uri |-> <<>>,
   postData |-> Undefined, body |-> <<>>, callback |-> Undefined,
   snapshot |-> g, http |-> 0, status |-> "none", threw |-> "none",
   cbCount |-> 0, cbSync |-> FALSE, cbErr |-> Undefined, cbRes |-> Undefined,
   endRan |-> 0, endBody |-> Undefined, transportErr |-> Null,
   respBody |-> Undefined,
   tokBefore |-> Undefined, tokAtCb |-> Undefined]

NoCall ==
  NewCall([accessToken |-> Null, appSecret |-> Null, graphUrl |-> <<>>],
          "none", Undefined, FALSE)

\* callback(err, res), for each function the module passes as a callback:
\* the caller's, the wrappers of authorize and extendAccessToken, noop.
\* [call, graph] after the invocation; `ended` is the status of a handler
\* that ran to its end
Noop == Fn(<<"n","o","o","p">>)

Nullish(v) == v.type \in {"null", "undefined"}

\* the wrappers of authorize (line 377) and extendAccessToken (lines
\* 400-402) call setAccessToken(res.access_token) when there is no error
SetsToken(cb, err) == cb \in {AuthorizeCallback, ExtendCallback} /\ ~Truthy(err)

\* wrappers that call the caller's callback without storing the token
GraphAfterKeep(g, cb, err, res) == g

GraphAfter(g, cb, err, res) ==
  IF SetsToken(cb, err) THEN [g EXCEPT !.accessToken = GetField(res, S_access_token)]
  ELSE g

Thrown(c, g, error) ==
  [call |-> [c EXCEPT !.threw = error, !.status = "threw"], graph |-> g]

Called(c, g, err, res, sync, ended) ==
  [call |-> [c EXCEPT !.cbCount = @ + 1, !.cbSync = sync, !.cbErr = err,
                      !.cbRes = res, !.tokAtCb = g.accessToken,
                      !.status = ended],
   graph |-> g]

InvokeCallback(c, g, cb, err, res, sync, ended) ==
  IF cb.type # "function" THEN Thrown(c, g, "TypeError")
  ELSE IF cb = Noop THEN [call |-> [c EXCEPT !.status = ended], graph |-> g]
  ELSE IF SetsToken(cb, err) /\ Nullish(res) THEN Thrown(c, g, "TypeError")
  ELSE Called(c, GraphAfter(g, cb, err, res), err, res, sync, ended)

\* GraphRequest.prototype.get and post, up to the call of the transport
Dispatch(c) ==
  IF c.method = "GET"
  THEN [c EXCEPT !.http = @ + 1, !.status = "inflight"]
  ELSE [c EXCEPT !.body = QsStringify(c.postData), !.http = @ + 1,
                 !.status = "inflight"]

\* lines 46-60, the arguments being those lines 41-44 leave
Construct(c, g, method, url, postData, callback) ==
  IF ~requestOptionsDefined
  \* line 52: `requestOptions` resolves to nothing
  THEN [c EXCEPT !.builder = TRUE, !.reqUrl = url, !.method = method,
                 !.uri = PrepareUrl(g, url),
                 !.callback = IF Truthy(callback) THEN callback ELSE Noop,
                 !.postData = postData,
                 !.threw = "ReferenceError", !.status = "threw"]
  ELSE Dispatch([c EXCEPT !.builder = TRUE, !.reqUrl = url, !.method = method,
                          !.uri = PrepareUrl(g, url),
                          !.callback = IF Truthy(callback) THEN callback ELSE Noop,
                          !.postData = postData])

\* new GraphRequest(graph, method, url, postData, callback)
GraphRequest(c, g, method, url, postData, callback) ==
  Construct(c, g, method, url,
            IF callback.type = "undefined" THEN Obj(<<>>) ELSE postData,
            IF callback.type = "undefined" THEN postData ELSE callback)

ValidationError == Obj(<<<<S_message, Text("GraphRequest api url must be a string")>>>>)

\* Graph.prototype.get(url, params, callback)
GraphGet(c, g, url, params, callback) ==
  LET cb == IF params.type = "function" THEN params ELSE callback
      ps == IF params.type = "function" THEN Null ELSE params
  IN  IF url.type # "string"
      THEN InvokeCallback(c, g, cb, ValidationError, Null, TRUE, "returned").call
      ELSE GraphRequest(c, g, "GET",
                        IF Truthy(ps)
                        THEN url.chars \o Separator(url.chars) \o QsStringify(ps)
                        ELSE url.chars,
                        cb, Undefined)

\* a post that looks for 'access_token=' where line 289 looks for
\* 'access_token'
DefaultPostDataEq(g, url) ==
  IF IndexOf(url, S_access_token_eq) # -1 THEN Obj(<<>>)
  ELSE Obj(<<<<S_access_token, g.accessToken>>>>)

\* the payload of a post whose second argument is the callback
DefaultPostData(g, url) ==
  IF IndexOf(url, S_access_token) # -1 THEN Obj(<<>>)
  ELSE Obj(<<<<S_access_token, g.accessToken>>>>)

\* Graph.prototype.post(url, postData, callback)
GraphPost(c, g, url, postData, callback) ==
  IF url.type # "string"
  THEN InvokeCallback(c, g, callback, ValidationError, Null, TRUE, "returned").call
  ELSE IF postData.type = "function"
  THEN GraphRequest(c, g, "POST", url.chars, DefaultPostData(g, url.chars), postData)
  ELSE GraphRequest(c, g, "POST", url.chars, postData, callback)

\* url.match(/[?|&]method=delete/i)
MatchesMethodDelete(url) ==
  \E i \in 1..Len(url) :
    /\ url[i] \in {"?", "|", "&"}
    /\ Lower(SubSeq(url, i + 1, i + Len(S_method_delete))) = S_method_delete

\* Graph.prototype.del(url, callback)
GraphDel(c, g, url, callback) ==
  IF url.type # "string"
  \* a value that is no string has no match method
  THEN [c EXCEPT !.threw = "TypeError", !.status = "threw"]
  ELSE GraphPost(c, g,
                 IF MatchesMethodDelete(url.chars) THEN url
                 ELSE Str(url.chars \o Separator(url.chars) \o S_method_delete),
                 callback, Undefined)

WithoutKeys(fields, keys) == SelectSeq(fields, LAMBDA kv : kv[1] \notin keys)

\* the params of extendAccessToken after lines 396-397
ExtendParams(g, params) ==
  Obj(WithoutKeys(params.fields, {S_grant_type, S_fb_exchange_token})
      \o <<<<S_grant_type, Str(S_fb_exchange_token)>>,
           <<S_fb_exchange_token,
             IF Truthy(GetField(params, S_access_token))
             THEN GetField(params, S_access_token) ELSE g.accessToken>>>>)

(***************************************************************************)
(* The operations.  A call that leaves a request in flight joins calls;    *)
(* any other call has ended when it returns.                               *)
(***************************************************************************)
Start(c) ==
  /\ IF c.status = "inflight"
     THEN calls' = Append(calls, c) /\ last' = NoCall
     ELSE last' = c /\ UNCHANGED calls
  /\ UNCHANGED <<graph, requestOptionsDefined>>

Get(url, params, callback) ==
  Start(GraphGet(NewCall(graph, "get", url, params.type = "function"), graph,
                 url, params, callback))

Post(url, postData, callback) ==
  Start(GraphPost(NewCall(graph, "post", url, postData.type = "function"), graph,
                  url, postData, callback))

Del(url, callback) ==
  Start(GraphDel(NewCall(graph, "del", url, TRUE), graph, url, callback))

Authorize(params) ==
  Start(GraphGet(NewCall(graph, "authorize", Str(S_oauth_access_token), FALSE), graph,
                 Str(S_oauth_access_token), params, AuthorizeCallback))

ExtendAccessToken(params) ==
  Start(GraphGet(NewCall(graph, "extendAccessToken", Str(S_oauth_access_token), FALSE), graph,
                 Str(S_oauth_access_token), ExtendParams(graph, params),
                 IF Truthy(GetField(params, S_access_token))
                 THEN ExtendKeepCallback ELSE ExtendCallback))

\* a setter whose new token reaches the requests in flight, as it would
\* if a builder read the client when its request is sent
SetAccessTokenLive(token) ==
  /\ graph' = [graph EXCEPT !.accessToken = token]
  /\ calls' = [i \in 1..Len(calls) |->
                [calls[i] EXCEPT !.uri = PrepareUrl(graph', calls[i].reqUrl)]]
  /\ UNCHANGED <<requestOptionsDefined, last>>

SetAccessToken(token) ==
  /\ graph' = [graph EXCEPT !.accessToken = token]
  /\ UNCHANGED <<requestOptionsDefined, calls, last>>

SetAppSecret(token) ==
  /\ graph' = [graph EXCEPT !.appSecret = token]
  /\ UNCHANGED <<requestOptionsDefined, calls, last>>

SetGraphUrl(url) ==
  /\ graph' = [graph EXCEPT !.graphUrl = url]
  /\ UNCHANGED <<requestOptionsDefined, calls, last>>

TransportError(err) ==
  Obj(<<<<S_message, Text("Error processing https request")>>, <<S_exception, err>>>>)

InvokeWith(c, g, args) ==
  InvokeCallback(c, g, c.callback, args.err, args.res, FALSE, "done")

\* self.end(body) of the request c
RunEnd(c, g, body) ==
  InvokeWith([c EXCEPT !.endRan = @ + 1, !.endBody = body], g, End(body))

\* the function GraphRequest.prototype.get hands to request.get
OnGetResponse(c, g, err, res, body) ==
  IF Truthy(err)
  THEN InvokeCallback(c, g, c.callback, TransportError(err), Null, FALSE, "done")
  ELSE IF res.contentType.type # "string"
  \* res.headers['content-type'] is undefined: .indexOf throws
  THEN Thrown(c, g, "TypeError")
  ELSE RunEnd(c, g,
              IF IndexOf(res.contentType.chars, S_image) # -1
              THEN Obj(<<<<S_image, True>>, <<S_location, res.location>>>>)
              ELSE body)

\* the handler of post without the return of line 197
OnPostResponseNoReturn(c, g, err, res, body) ==
  IF Truthy(err)
  THEN RunEnd(InvokeCallback(c, g, c.callback, TransportError(err), Null,
                             FALSE, "done").call, g, body)
  ELSE RunEnd(c, g, body)

\* the function GraphRequest.prototype.post hands to request
OnPostResponse(c, g, err, res, body) ==
  IF Truthy(err)
  THEN InvokeCallback(c, g, c.callback, TransportError(err), Null, FALSE, "done")
  ELSE RunEnd(c, g, body)

\* what the transport reported to the request c, and the token then
Received(c, g, err, body) ==
  [c EXCEPT !.transportErr = err, !.respBody = body, !.tokBefore = g.accessToken]

RemoveAt(s, i) == SubSeq(s, 1, i - 1) \o SubSeq(s, i + 1, Len(s))

Ended(i, out) ==
  /\ calls' = RemoveAt(calls, i)
  /\ last' = out.call
  /\ graph' = out.graph
  /\ UNCHANGED requestOptionsDefined

\* the transport answers the request calls[i]: with an error, or with a
\* response and its body
Respond(i, err, res, body) ==
  Ended(i, IF calls[i].method = "GET"
           THEN OnGetResponse(Received(calls[i], graph, err, body), graph, err, res, body)
           ELSE OnPostResponse(Received(calls[i], graph, err, body), graph, err, res, body))

(***************************************************************************)
(* The inputs of the model.                                                *)
(***************************************************************************)
TokenA == Str(<<"A">>)
TokenB == Str(<<"B">>)
SecretS == Str(<<"S">>)
OtherGraphUrl == <<"h","t","t","p",":","/","/","h">>

\* the options of `new Graph(options)`
Options ==
  [accessToken : {Undefined, TokenA}, appSecret : {Undefined, SecretS},
   graphUrl : {<<>>, OtherGraphUrl}]

\* the paths of the URL specification: a lead, a name, a query
Leads == {<<>>, <<"/">>, <<" ">>, OtherGraphUrl \o <<"/">>}

QueryParams ==
  {S_access_token_eq \o <<"A">>,
   S_access_token_eq \o <<"B">>,
   S_appsecret_proof_eq \o <<"x">>,
   S_method_delete,
   <<"M","e","t","h","o","d","=","D","E","L","E","T","E">>,
   <<"f","=">> \o S_access_token,
   <<"q","=","a","|">> \o S_method_delete}

RECURSIVE JoinQuery(_, _)
JoinQuery(ps, first) ==
  IF ps = <<>> THEN <<>>
  ELSE (IF first THEN <<"?">> ELSE <<"&">>) \o Head(ps) \o JoinQuery(Tail(ps), FALSE)

Queries ==
  {JoinQuery(ps, TRUE) : ps \in UNION {[1..n -> QueryParams] : n \in 0..MaxParams}}

Paths == {lead \o <<"m","e">> \o q : lead \in Leads, q \in Queries}

GetParams == {Obj(<<<<(<<"f">>), Str(<<"x">>)>>>>)}
Payloads == {Obj(<<<<(<<"m">>), Str(<<"h","i">>)>>>>)}

\* the arguments of the lifecycle specification
FewUrls ==
  {Str(<<"m","e">>), Str(<<"m","e","?">> \o S_access_token_eq \o <<"B">>),
   Num(<<"4","2">>)}

AuthorizeParams == {Obj(<<<<(<<"c","o","d","e">>), Str(<<"c">>)>>>>)}

ExtendParamsGiven ==
  {Obj(<<>>), Obj(<<<<S_access_token, TokenA>>>>)}

\* what the transport reports: an error, or response headers and a body
Errors == {Text("ECONNRESET")}

Headers ==
  [contentType : {Undefined, Str(<<"t","e","x","t">>), Str(S_image \o <<"/","x">>)},
   location : {Str(<<"h","t","t","p",":","/","/","l">>)}]

B_true == <<"t","r","u","e">>
B_token_query == S_access_token_eq \o <<"B","&","e","=","5">>
B_error_query == S_error \o <<"=","x">>

Bodies ==
  {Str(B_name), Str(B_error), Str(B_error_zero), Str(B_token_json),
   Str(B_bad_json), Str(B_true), Str(B_token_query), Str(B_error_query),
   Obj(<<<<S_error, Str(<<"y">>)>>>>), Undefined}

(***************************************************************************)
(* The specifications.                                                     *)
(***************************************************************************)
Init ==
  /\ graph \in {NewGraph(o) : o \in Options}
  /\ requestOptionsDefined \in BOOLEAN
  /\ calls = <<>>
  /\ last = NoCall

\* Spec: one caller, who starts a call when the call before it has ended,
\* and a transport that reports any outcome
Idle == calls = <<>>

GetCall == Idle /\ \E url \in FewUrls : Get(url, UserCallback, Undefined)

GetParamsCall ==
  Idle /\ \E url \in FewUrls, params \in GetParams : Get(url, params, UserCallback)

PostCall == Idle /\ \E url \in FewUrls : Post(url, UserCallback, Undefined)

PostPayloadCall ==
  Idle /\ \E url \in FewUrls, payload \in Payloads : Post(url, payload, UserCallback)

DelCall == Idle /\ \E url \in FewUrls : Del(url, UserCallback)

AuthorizeCall == Idle /\ \E params \in AuthorizeParams : Authorize(params)

ExtendCall == Idle /\ \E params \in ExtendParamsGiven : ExtendAccessToken(params)

Fail == \E i \in 1..Len(calls), e \in Errors : Respond(i, e, Undefined, Undefined)

Answer ==
  \E i \in 1..Len(calls), res \in Headers, body \in Bodies :
    Respond(i, Null, res, body)

Next ==
  \/ GetCall \/ GetParamsCall \/ PostCall \/ PostPayloadCall \/ DelCall
  \/ AuthorizeCall \/ ExtendCall \/ Fail \/ Answer

Spec == Init /\ [][Next]_vars

\* SpecUrl: one call of get, post or del on any of Paths
First == calls = <<>> /\ last = NoCall

UrlGet == First /\ \E p \in Paths : Get(Str(p), UserCallback, Undefined)

UrlGetParams ==
  First /\ \E p \in Paths, params \in GetParams : Get(Str(p), params, UserCallback)

UrlPost == First /\ \E p \in Paths : Post(Str(p), UserCallback, Undefined)

UrlPostPayload ==
  First /\ \E p \in Paths, payload \in Payloads : Post(Str(p), payload, UserCallback)

UrlDel == First /\ \E p \in Paths : Del(Str(p), UserCallback)

NextUrl == UrlGet \/ UrlGetParams \/ UrlPost \/ UrlPostPayload \/ UrlDel

SpecUrl == Init /\ [][NextUrl]_vars

\* SpecConc: up to MaxCalls calls at a time, the setters between them, and
\* a transport that fails or answers with a token
InitConc ==
  /\ graph = NewGraph([accessToken |-> TokenA, appSecret |-> Undefined, graphUrl |-> <<>>])
  /\ requestOptionsDefined \in BOOLEAN
  /\ calls = <<>>
  /\ last = NoCall

Room == Len(calls) < MaxCalls

ConcGet == Room /\ Get(Str(<<"m","e">>), UserCallback, Undefined)

ConcPost == Room /\ Post(Str(<<"m","e">>), UserCallback, Undefined)

ConcAuthorize == Room /\ \E params \in AuthorizeParams : Authorize(params)

ConcSetAccessToken == \E token \in {TokenA, TokenB} : SetAccessToken(token)

ConcSetAppSecret == SetAppSecret(SecretS)

ConcSetGraphUrl == SetGraphUrl(OtherGraphUrl)

ConcAnswer ==
  \E i \in 1..Len(calls) :
    Respond(i, Null, [contentType |-> Str(<<"t","e","x","t">>), location |-> Undefined],
            Str(B_token_query))

NextConc ==
  \/ ConcGet \/ ConcPost \/ ConcAuthorize
  \/ ConcSetAccessToken \/ ConcSetAppSecret \/ ConcSetGraphUrl
  \/ Fail \/ ConcAnswer

SpecConc == InitConc /\ [][NextConc]_vars

\* every call the state holds
AllCalls == {calls[i] : i \in 1..Len(calls)} \cup ({last} \ {NoCall})

(***************************************************************************)
(* The claims.                                                             *)
(***************************************************************************)
\* the calls for which a GraphRequest was constructed
Built == {c \in AllCalls : c.builder}

\* the calls whose HTTP request was issued
Issued == {c \in Built : c.http = 1}

\* the call that has ended, if one has
EndedCalls == {last} \ {NoCall}

Count(s, pat) == Cardinality(Occurrences(s, pat))

Contains(s, pat) == Occurrences(s, pat) # {}

\* the method=delete query parameters of a URL, in any letter case
MethodDeleteParams(url) ==
  {i \in 1..Len(url) :
     /\ url[i] \in {"?", "&"}
     /\ Lower(SubSeq(url, i + 1, i + Len(S_method_delete))) = S_method_delete}

Token(c) == c.snapshot.accessToken

Secret(c) == c.snapshot.appSecret

\* C1 (as claimed): a call of get or post with a string path that has ended
\* (the constructor threw, or the transport reported its outcome) has had
\* its callback invoked exactly once
C1_CallbackExactlyOnce ==
  \A c \in EndedCalls :
    c.op \in {"get", "post"} /\ c.url.type = "string" => c.cbCount = 1

\* C2 (as claimed): while the client holds a token T, the URL of a
\* request holds access_token=T exactly once and no second access_token parameter,
\* whatever the path
C2_Original ==
  \A c \in Issued :
    Truthy(Token(c)) =>
      /\ Count(c.uri, S_access_token_eq \o ToStr(Token(c))) = 1
      /\ Count(c.uri, S_access_token_eq) = 1

\* C2 (amended): while the client holds a token T, a URL that holds no
\* access_token= is given ?access_token=T or &access_token=T once, and a
\* URL that holds access_token= already (with any value) is given none
C2_TokenOnceUnlessPresent ==
  \A c \in Issued :
    Truthy(Token(c)) =>
      IF Contains(c.reqUrl, S_access_token_eq)
      THEN Count(c.uri, S_access_token_eq) = Count(c.reqUrl, S_access_token_eq)
      ELSE /\ Count(c.uri, S_access_token_eq) = 1
           /\ \/ Count(c.uri, <<"?">> \o S_access_token_eq \o ToStr(Token(c))) = 1
              \/ Count(c.uri, <<"&">> \o S_access_token_eq \o ToStr(Token(c))) = 1

C2_Witness ==
  \E c \in Issued :
    /\ Token(c) = TokenA
    /\ Contains(c.reqUrl, <<"?">>)
    /\ ~Contains(c.reqUrl, S_access_token_eq)
    /\ Count(c.uri, <<"&">> \o S_access_token_eq \o <<"A">>) = 1

\* C3 (as claimed): with a token T and a secret S the prepared URL holds
\* appsecret_proof=hex(HMAC(S, T)), whatever the path; with no token or no
\* secret no appsecret_proof is added
C3_Original ==
  \A c \in Issued :
    IF Truthy(Token(c)) /\ Truthy(Secret(c))
    THEN Contains(c.uri, S_appsecret_proof_eq
                         \o HmacHex(ToStr(Secret(c)), ToStr(Token(c))))
    ELSE Count(c.uri, S_appsecret_proof) = Count(c.reqUrl, S_appsecret_proof)

\* C3 (amended): with a token T and a secret S, a URL that does not hold
\* the text appsecret_proof is given appsecret_proof=hex(HMAC(S, T)) once;
\* a URL that holds the text already, and any URL when the token or the
\* secret is missing, is given no appsecret_proof
C3_ProofUnlessPresent ==
  \A c \in Issued :
    IF /\ Truthy(Token(c))
       /\ Truthy(Secret(c))
       /\ ~Contains(c.reqUrl, S_appsecret_proof)
    THEN /\ Count(c.uri, S_appsecret_proof) = 1
         /\ Contains(c.uri, S_appsecret_proof_eq
                            \o HmacHex(ToStr(Secret(c)), ToStr(Token(c))))
    ELSE Count(c.uri, S_appsecret_proof) = Count(c.reqUrl, S_appsecret_proof)

C3_Witness ==
  \E c \in Issued :
    /\ Token(c) = TokenA
    /\ Secret(c) = SecretS
    /\ ~Contains(c.reqUrl, S_appsecret_proof)
    /\ Contains(c.uri, S_appsecret_proof_eq \o HmacHex(<<"S">>, <<"A">>))

\* the calls whose response reached end, end having parsed, without a parse
\* error, an object with a truthy error field
EmbeddedErrorCalls ==
  {c \in EndedCalls :
     /\ c.endRan = 1
     /\ c.cbCount = 1
     /\ ParseBody(c.endBody).err = Null
     /\ ParseBody(c.endBody).json.type = "object"
     /\ Truthy(GetField(ParseBody(c.endBody).json, S_error))}

\* C4 (as claimed): the callback receives the error field as its error and
\* a null or absent result
C4_Original ==
  \A c \in EmbeddedErrorCalls :
    /\ c.cbErr = GetField(ParseBody(c.endBody).json, S_error)
    /\ Nullish(c.cbRes)

\* C4 (amended): the callback receives the error field, unwrapped, as its
\* error, and the whole parsed body as its result
C4_EmbeddedErrorWithBody ==
  \A c \in EmbeddedErrorCalls :
    /\ c.cbErr = GetField(ParseBody(c.endBody).json, S_error)
    /\ c.cbRes = ParseBody(c.endBody).json

C4_Witness ==
  \E c \in EmbeddedErrorCalls :
    /\ c.endBody = Str(B_error)
    /\ c.cbErr = Obj(<<<<(<<"m">>), Str(<<"x">>)>>>>)
    /\ c.cbRes = Obj(<<<<S_error, c.cbErr>>>>)

\* C5: when the transport reports a failure, for GET and for POST, the
\* callback is invoked once, with a non-null error that carries the
\* transport's error and with a null result; end is not run, the handler
\* does not throw, and the one HTTP request of the call stays the only one
C5_TransportFailure ==
  \A c \in EndedCalls :
    Truthy(c.transportErr) =>
      /\ c.cbCount = 1
      /\ c.cbErr.type = "object"
      /\ GetField(c.cbErr, S_exception) = c.transportErr
      /\ c.cbRes = Null
      /\ c.endRan = 0
      /\ c.http = 1
      /\ c.threw = "none"
      /\ c \notin {calls[i] : i \in 1..Len(calls)}

C5_Witness ==
  \E c \in EndedCalls :
    /\ c.method = "POST"
    /\ c.transportErr \in Errors
    /\ c.cbCount = 1
    /\ c.cbRes = Null

\* C6: the URL and the body a request carries are those prepared from the
\* base URL, the token and the secret the client held when the request was
\* built, whatever the setters and the completions of other requests have
\* done to the client since
C6_SnapshotAtConstruction ==
  \A c \in Issued :
    /\ c.uri = PrepareUrl(c.snapshot, c.reqUrl)
    /\ SubSeq(c.uri, 1, Len(c.snapshot.graphUrl)) = c.snapshot.graphUrl
    /\ Truthy(Token(c)) =>
         Contains(c.uri, S_access_token_eq \o ToStr(Token(c)))
    /\ ~Truthy(Token(c)) => ~Contains(c.uri, S_access_token_eq)
    /\ c.method = "POST" => c.body = QsStringify(c.postData)
    /\ c.op = "post" /\ c.payloadOmitted =>
         c.postData = Obj(<<<<S_access_token, Token(c)>>>>)

C6_Witness ==
  \E i \in 1..Len(calls) :
    /\ Token(calls[i]) = TokenA
    /\ calls[i].snapshot.graphUrl = S_default_graphUrl
    /\ Secret(calls[i]) = Null
    /\ graph.accessToken = TokenB
    /\ graph.graphUrl = OtherGraphUrl
    /\ graph.appSecret = SecretS
    /\ last.op = "authorize"
    /\ last.tokBefore = TokenA
    /\ last.tokAtCb = TokenB

\* the calls of authorize whose token request has completed
AuthorizeCompleted ==
  {c \in EndedCalls : c.op = "authorize" /\ c.status = "done"}

\* C7: when the token request of authorize completes without error the
\* stored token is the response's access_token when the callback is
\* invoked; when it completes with an error (transport, parse, embedded)
\* the stored token is unchanged and the callback receives the error
C7_AuthorizeStoresToken ==
  \A c \in AuthorizeCompleted :
    /\ c.cbCount = 1
    /\ Truthy(c.cbErr) <=>
         \/ Truthy(c.transportErr)
         \/ c.endRan = 1 /\ Truthy(End(c.endBody).err)
    /\ ~Truthy(c.cbErr) =>
         /\ c.tokAtCb = GetField(c.cbRes, S_access_token)
         /\ graph.accessToken = c.tokAtCb
    /\ Truthy(c.cbErr) =>
         /\ c.tokAtCb = c.tokBefore
         /\ graph.accessToken = c.tokBefore

C7_Witness ==
  \E c \in AuthorizeCompleted :
    /\ ~Truthy(c.cbErr)
    /\ c.cbCount = 1
    /\ c.tokBefore # TokenB
    /\ c.tokAtCb = TokenB
    /\ graph.accessToken = TokenB

\* the posts whose second argument was the callback
PostsWithoutPayload == {c \in Issued : c.op = "post" /\ c.payloadOmitted}

\* C8 (as claimed): the payload sent is {} when the path holds no access token
\* parameter, and {access_token: <the client's token>} when it holds one
C8_Original ==
  \A c \in PostsWithoutPayload :
    c.postData = IF Contains(c.url.chars, S_access_token)
                 THEN Obj(<<<<S_access_token, Token(c)>>>>)
                 ELSE Obj(<<>>)

\* C8 (amended): the payload sent is {access_token: <the client's token>} when
\* the path does not hold the text access_token, and {} when it does
C8_DefaultPayload ==
  \A c \in PostsWithoutPayload :
    /\ c.postData = IF Contains(c.url.chars, S_access_token)
                    THEN Obj(<<>>)
                    ELSE Obj(<<<<S_access_token, Token(c)>>>>)
    /\ c.body = QsStringify(c.postData)

C8_Witness ==
  \E c \in PostsWithoutPayload :
    /\ Contains(c.url.chars, <<"=">> \o S_access_token)
    /\ ~Contains(c.url.chars, S_access_token_eq)
    /\ c.postData = Obj(<<>>)
    /\ c.body = <<>>

\* C9 (as claimed): get and post with a path that is no string invoke the
\* callback before they return, with a validation error and a null result,
\* build no request, issue no HTTP request and do not throw
C9_NonStringPath ==
  \A c \in EndedCalls :
    c.op \in {"get", "post"} /\ c.url.type # "string" =>
      /\ c.cbCount = 1
      /\ c.cbSync
      /\ c.cbErr = ValidationError
      /\ c.cbRes = Null
      /\ ~c.builder
      /\ c.http = 0
      /\ c.threw = "none"

\* C10 (as claimed): del issues a POST whose URL holds one method=delete
\* query parameter; here for the paths that hold at most one already
C10_MethodDeleteOnce ==
  \A c \in Issued :
    c.op = "del" /\ Cardinality(MethodDeleteParams(c.url.chars)) <= 1 =>
      /\ c.method = "POST"
      /\ Cardinality(MethodDeleteParams(c.uri)) = 1

=============================================================================
